---- MODULE Spec2Model ----
(***************************************************************************)
(* A model of the CHIP-8 interpreter: the fetch-decode-execute engine of   *)
(* main.rs (Chip8::execute_instr), the pixel grid of screen.rs, the        *)
(* register file of registers.rs, the keypad of keys.rs, the 60 Hz timer   *)
(* thread of main.rs and the presentation loop of window.rs.               *)
(*                                                                         *)
(* Three contexts share state through mutexes: the execution thread        *)
(* (run_at), the timer thread (start_timer_thread) and the presentation    *)
(* loop (draw).  A panic ends the thread it happens in; a panic of the     *)
(* main thread (the presentation loop) ends the process.                   *)
(***************************************************************************)
EXTENDS Integers, Sequences, FiniteSets, TLC

(***************************************************************************)
(* Bounds of the model.                                                    *)
(***************************************************************************)
\* how many of the representative byte values (ByteOrder) programs may load
NumVals == 5
\* how many of the representative sprite rows (SpriteOrder) programs may hold
NumSprites == 4
\* the row counts n that the Dxyn instructions of the draw programs use: 0..MaxRows
MaxRows == 2
\* highest register index the store/load programs use for x: 0..MaxStoreX
MaxStoreX == 2
\* the values the timer program loads into the timers: 1..MaxTimer
MaxTimer == 2
\* the target rate stops growing once it reached RateSteps * 50
RateSteps == 2
\* the deepest call stack the model follows (the Vec itself is unbounded)
MaxStack == 3

VARIABLES
    config,           \* Chip8.config: the three quirk flags
    overflow_checks,  \* the build: TRUE = arithmetic overflow panics (debug profile)
    memory,           \* Chip8.memory: the cells written since Memory::new()
    pc,               \* Chip8.pc
    i,                \* Chip8.i, the index register
    stack,            \* Chip8.stack
    registers,        \* Chip8.registers
    screen,           \* Screen: row y |-> the set of bit positions set in the row's u64
    timers,           \* Timers: delay_timer, sound_timer
    keys,             \* the 16 key-down flags
    options,          \* Shared: the throttle state the presentation loop edits
    lock,             \* for each mutex, the context holding it across steps
    poisoned,         \* the screen mutex was held by a thread that panicked
    execPc,           \* execution thread: "spawned", "running" or "panicked"
    timerPc,          \* timer thread: its position in the loop body
    presPc,           \* presentation loop: its position in the loop body
    process,          \* "running" or "exited"
    last,             \* history: the instruction executed last and the state before it
    snap,             \* history: the registers and index at the last completed Fx55
    tickStart         \* history: the timers when the timer thread took the lock

vars == <<config, overflow_checks, memory, pc, i, stack, registers, screen, timers,
          keys, options, lock, poisoned, execPc, timerPc, presPc, process, last, snap,
          tickStart>>

(***************************************************************************)
(* Bytes and bits.                                                         *)
(***************************************************************************)
Byte == 0..255

Pow2(k) == 2 ^ k

\* bit k of v
Bit(v, k) == (v \div Pow2(k)) % 2

\* u8 & u8, u8 | u8, u8 ^ u8, bit by bit from bit k down
RECURSIVE BitAndFrom(_, _, _)
BitAndFrom(a, b, k) ==
    IF k < 0 THEN 0
    ELSE Pow2(k) * (Bit(a, k) * Bit(b, k)) + BitAndFrom(a, b, k - 1)

BitAnd(a, b) == BitAndFrom(a, b, 7)

BitOr(a, b) == a + b - BitAnd(a, b)

BitXor(a, b) == a + b - 2 * BitAnd(a, b)

(***************************************************************************)
(* Instr (main.rs).                                                        *)
(***************************************************************************)
\* Instr::as_nibbles
as_nibbles(instr) ==
    << BitAnd(instr.b1, 240) \div 16, BitAnd(instr.b1, 15),
       BitAnd(instr.b2, 240) \div 16, BitAnd(instr.b2, 15) >>

\* Instr::as_u8
as_u8(instr) == instr.b2

\* Instr::as_address without the mask of the high nibble of b1
as_addressUnmasked(instr) == instr.b1 * 256 + instr.b2

\* Instr::as_address
as_address(instr) == BitAnd(instr.b1, 15) * 256 + instr.b2

(***************************************************************************)
(* Memory (memory.rs is not among the sources: a flat array of 4096 bytes, *)
(* zeroed, with the font glyphs at 0x050..0x09F; an access outside the     *)
(* array fails).  The variable holds the cells written since construction; *)
(* every other cell still holds its initial byte.                          *)
(***************************************************************************)
MEMORY_SIZE == 4096

FONT_BASE == 80

FONT ==
    << 240, 144, 144, 144, 240,    32,  96,  32,  32, 112,
       240,  16, 240, 128, 240,   240,  16, 240,  16, 240,
       144, 144, 240,  16,  16,   240, 128, 240,  16, 240,
       240, 128, 240, 144, 240,   240,  16,  32,  64,  64,
       240, 144, 240, 144, 240,   240, 144, 240,  16, 240,
       240, 144, 240, 144, 144,   224, 144, 224, 144, 224,
       240, 128, 128, 128, 240,   224, 144, 144, 144, 224,
       240, 128, 240, 128, 240,   240, 128, 240, 128, 128 >>

\* the byte Memory::new() leaves at address a
InitialByte(a) ==
    IF a >= FONT_BASE /\ a < FONT_BASE + Len(FONT) THEN FONT[a - FONT_BASE + 1] ELSE 0

InBounds(a) == a >= 0 /\ a < MEMORY_SIZE

\* Memory::get, for an address inside the array
MemGet(m, a) == IF a \in DOMAIN m THEN m[a] ELSE InitialByte(a)

\* Memory::set, for an address inside the array
MemSet(m, a, v) == [b \in DOMAIN m \cup {a} |-> IF b = a THEN v ELSE m[b]]

\* Memory::load_bytes_at
load_bytes_at(m, at, bytes) ==
    [b \in DOMAIN m \cup {at + k - 1 : k \in 1..Len(bytes)} |->
        IF b >= at /\ b < at + Len(bytes) THEN bytes[b - at + 1] ELSE m[b]]

\* Memory::new: no cell written yet
MemoryNew == << >>

(***************************************************************************)
(* Registers (registers.rs).                                               *)
(***************************************************************************)
RegistersNew == [r \in 0..15 |-> 0]

RegGet(regs, x) == regs[x]

RegSet(regs, x, v) == [regs EXCEPT ![x] = v]

(***************************************************************************)
(* Screen (screen.rs).  A row is a u64; it is held as the set of the       *)
(* positions of its one bits.                                              *)
(***************************************************************************)
SCREEN_ROWS == 32

ROW_BITS == 64

ScreenNew == [y \in 0..(SCREEN_ROWS - 1) |-> {}]

\* Screen::clear
ScreenClear == [y \in 0..(SCREEN_ROWS - 1) |-> {}]

\* Screen::toggle: the row is indexed first (y outside the array panics); 1 << x
\* overflows for x >= 64, which panics with overflow checks and otherwise shifts
\* by x mod 64.  Returns the new grid and "the new state of the pixel".
toggle(scr, x, y, checks) ==
    IF y >= SCREEN_ROWS \/ (x >= ROW_BITS /\ checks)
    THEN [panic |-> TRUE, screen |-> scr, ret |-> FALSE]
    ELSE LET bit == x % ROW_BITS
             new == [scr EXCEPT ![y] = @ \cup {bit}]
         IN  [panic |-> FALSE, screen |-> new, ret |-> bit \in new[y]]

(***************************************************************************)
(* Keys (keys.rs) and the key map (keys.rs, window.rs).                    *)
(***************************************************************************)
KEY_MAP ==
    << "X", "Key1", "Key2", "Key3", "Q", "W", "E", "A",
       "S", "D", "Z", "C", "Key4", "R", "F", "V" >>

KeysDefault == [k \in 0..15 |-> FALSE]

\* Keys::get
KeysGet(ks, x) == ks[x % 15]

\* Keys::set, and the loop of handle_user_input that does the same
KeysSet(down) == [k \in 0..15 |-> KEY_MAP[k + 1] \in down]

(***************************************************************************)
(* Config (main.rs).                                                       *)
(***************************************************************************)
\* Config::default()
ConfigDefault ==
    [bitshift_copies_y |-> FALSE, jump_with_offset_register |-> FALSE,
     update_i_after_store_or_load |-> FALSE]

Configs ==
    [bitshift_copies_y : BOOLEAN, jump_with_offset_register : BOOLEAN,
     update_i_after_store_or_load : BOOLEAN]

\* Timers::new()
TimersNew == [delay_timer |-> 0, sound_timer |-> 0]

(***************************************************************************)
(* Chip8::execute_instr (main.rs), one operator per match arm.  The arms   *)
(* work on the record c of the engine's state, in which pc is already      *)
(* advanced past the instruction; a panic ends the arm where it happens.   *)
(***************************************************************************)
Cur ==
    [pc |-> pc, i |-> i, stack |-> stack, registers |-> registers, memory |-> memory,
     screen |-> screen, timers |-> timers, panicked |-> FALSE, poisoned |-> poisoned]

Panic(c) == [c EXCEPT !.panicked = TRUE]

\* a panic while the screen mutex is held poisons it
PanicHoldingScreen(c) == [c EXCEPT !.panicked = TRUE, !.poisoned = TRUE]

\* u8::overflowing_add, u8::overflowing_sub: <<wrapped result, overflowed>>
overflowing_add(a, b) == << (a + b) % 256, a + b > 255 >>

overflowing_sub(a, b) == << (a - b + 256) % 256, a < b >>

\* bool.into() -> u8
BoolToU8(b) == IF b THEN 1 ELSE 0

\* 00E0
OpClearScreen(c) == [c EXCEPT !.screen = ScreenClear]

\* 00EE taking the oldest return address instead of the newest
OpReturnOldest(c) ==
    IF c.stack = << >> THEN Panic(c)
    ELSE [c EXCEPT !.pc = c.stack[1],
                   !.stack = SubSeq(c.stack, 2, Len(c.stack))]

\* 00EE: Vec::pop().unwrap()
OpReturn(c) ==
    IF c.stack = << >> THEN Panic(c)
    ELSE [c EXCEPT !.pc = c.stack[Len(c.stack)],
                   !.stack = SubSeq(c.stack, 1, Len(c.stack) - 1)]

\* 0nnn: unimplemented!()
OpMachineCode(c) == Panic(c)

\* 1nnn
OpJump(c, instr) == [c EXCEPT !.pc = as_address(instr)]

\* 2nnn
OpCall(c, instr) == [c EXCEPT !.stack = Append(c.stack, c.pc), !.pc = as_address(instr)]

\* 3xnn skipping one byte instead of one instruction
OpSkipEqOneByte(c, x, instr) ==
    IF RegGet(c.registers, x) = as_u8(instr) THEN [c EXCEPT !.pc = c.pc + 1] ELSE c

\* 3xnn
OpSkipEq(c, x, instr) ==
    IF RegGet(c.registers, x) = as_u8(instr) THEN [c EXCEPT !.pc = c.pc + 2] ELSE c

\* 4xnn
OpSkipNe(c, x, instr) ==
    IF RegGet(c.registers, x) # as_u8(instr) THEN [c EXCEPT !.pc = c.pc + 2] ELSE c

\* 5xy0
OpSkipRegEq(c, x, y) ==
    IF RegGet(c.registers, x) = RegGet(c.registers, y) THEN [c EXCEPT !.pc = c.pc + 2] ELSE c

\* 9xy0
OpSkipRegNe(c, x, y) ==
    IF RegGet(c.registers, x) # RegGet(c.registers, y) THEN [c EXCEPT !.pc = c.pc + 2] ELSE c

\* 6xnn
OpSetImm(c, x, instr) == [c EXCEPT !.registers = RegSet(@, x, as_u8(instr))]

\* 7xnn: wrapping_add
OpAddImm(c, x, instr) ==
    [c EXCEPT !.registers = RegSet(@, x, (RegGet(@, x) + as_u8(instr)) % 256)]

\* 8xy0
OpCopy(c, x, y) == [c EXCEPT !.registers = RegSet(@, x, RegGet(@, y))]

\* 8xy1
OpOr(c, x, y) == [c EXCEPT !.registers = RegSet(@, x, BitOr(RegGet(@, x), RegGet(@, y)))]

\* 8xy2
OpAnd(c, x, y) == [c EXCEPT !.registers = RegSet(@, x, BitAnd(RegGet(@, x), RegGet(@, y)))]

\* 8xy3
OpXor(c, x, y) == [c EXCEPT !.registers = RegSet(@, x, BitXor(RegGet(@, x), RegGet(@, y)))]

\* 8xy4 with the two writes in the other order: the flag first, then the sum
OpAddCarryFlagFirst(c, x, y) ==
    LET res == overflowing_add(RegGet(c.registers, x), RegGet(c.registers, y))
        r1  == RegSet(c.registers, 15, BoolToU8(res[2]))
    IN  [c EXCEPT !.registers = RegSet(r1, x, res[1])]

\* 8xy4
OpAddCarry(c, x, y) ==
    LET res == overflowing_add(RegGet(c.registers, x), RegGet(c.registers, y))
        r1  == RegSet(c.registers, x, res[1])
    IN  [c EXCEPT !.registers = RegSet(r1, 15, BoolToU8(res[2]))]

\* 8xy5 with the flag reporting the borrow itself
OpSubCarryBorrowFlag(c, x, y) ==
    LET res == overflowing_sub(RegGet(c.registers, x), RegGet(c.registers, y))
        r1  == RegSet(c.registers, x, res[1])
    IN  [c EXCEPT !.registers = RegSet(r1, 15, BoolToU8(res[2]))]

\* 8xy5
OpSubCarry(c, x, y) ==
    LET res == overflowing_sub(RegGet(c.registers, x), RegGet(c.registers, y))
        r1  == RegSet(c.registers, x, res[1])
    IN  [c EXCEPT !.registers = RegSet(r1, 15, BoolToU8(~res[2]))]

\* 8xy7
OpSubFrom(c, x, y) ==
    LET res == overflowing_sub(RegGet(c.registers, y), RegGet(c.registers, x))
        r1  == RegSet(c.registers, x, res[1])
    IN  [c EXCEPT !.registers = RegSet(r1, 15, BoolToU8(~res[2]))]

\* 8xy6
OpShiftRight(c, x, y) ==
    LET r0 == IF config.bitshift_copies_y
              THEN RegSet(c.registers, y, RegGet(c.registers, x)) ELSE c.registers
        n  == RegGet(r0, x)
        r1 == RegSet(r0, x, n \div 2)
    IN  [c EXCEPT !.registers = RegSet(r1, 15, BitAnd(n, 1))]

\* 8xyE
OpShiftLeft(c, x, y) ==
    LET r0 == IF config.bitshift_copies_y
              THEN RegSet(c.registers, y, RegGet(c.registers, x)) ELSE c.registers
        n  == RegGet(r0, x)
        r1 == RegSet(r0, x, (n * 2) % 256)
    IN  [c EXCEPT !.registers = RegSet(r1, 15, BoolToU8(BitAnd(n, 128) # 0))]

\* Annn
OpSetIndex(c, instr) == [c EXCEPT !.i = as_address(instr)]

\* Bxnn
OpJumpOffset(c, x, instr) ==
    [c EXCEPT !.pc = as_address(instr)
                     + RegGet(c.registers, IF config.jump_with_offset_register THEN x ELSE 0)]

\* Cxnn, rnd being the byte rand::random() returns
OpRandom(c, x, instr, rnd) == [c EXCEPT !.registers = RegSet(@, x, BitAnd(rnd, as_u8(instr)))]

\* the inner loop of Dxyn over the bits b..7 of one sprite row, most significant first:
\* toggle is called for the set bits only (&& does not evaluate its right side otherwise)
RECURSIVE DrawRow(_, _, _, _, _, _)
DrawRow(c, x_c, y_c, row, sprite_data, b) ==
    IF b >= 8 \/ c.panicked THEN c
    ELSE IF Bit(sprite_data, 7 - b) = 0
         THEN DrawRow(c, x_c, y_c, row, sprite_data, b + 1)
         ELSE LET t == toggle(c.screen, x_c + b, y_c + row, overflow_checks)
              IN  IF t.panic THEN PanicHoldingScreen(c)
                  ELSE DrawRow(
                           [c EXCEPT !.screen = t.screen,
                                     !.registers = IF ~t.ret THEN RegSet(@, 15, 1) ELSE @],
                           x_c, y_c, row, sprite_data, b + 1)

\* the outer loop of Dxyn over the rows row..n-1
RECURSIVE DrawLoop(_, _, _, _, _)
DrawLoop(c, x_c, y_c, n, row) ==
    IF row >= n \/ c.panicked THEN c
    ELSE IF ~InBounds(c.i + row) THEN PanicHoldingScreen(c)
         ELSE LET drawn == CHOOSE r \in {DrawRow(c, x_c, y_c, row,
                                                 MemGet(c.memory, c.i + row), 0)} : TRUE
              IN  DrawLoop(drawn, x_c, y_c, n, row + 1)

\* Dxyn
OpDisplay(c, x, y, n) ==
    LET x_c == RegGet(c.registers, x) % 64
        y_c == RegGet(c.registers, y) % 32
    IN  DrawLoop([c EXCEPT !.registers = RegSet(@, 15, 0)], x_c, y_c, n, 0)

\* Fx07
OpGetDelay(c, x) == [c EXCEPT !.registers = RegSet(@, x, c.timers.delay_timer)]

\* Fx15
OpSetDelay(c, x) == [c EXCEPT !.timers.delay_timer = RegGet(c.registers, x)]

\* Fx18
OpSetSound(c, x) == [c EXCEPT !.timers.sound_timer = RegGet(c.registers, x)]

\* Fx1E wrapping only above 4096 instead of from 4096 on
OpAddIndexWrapAbove(c, x) ==
    LET sum == c.i + RegGet(c.registers, x)
    IN  IF sum > 4096
        THEN [c EXCEPT !.i = sum % 4096, !.registers = RegSet(@, 15, 1)]
        ELSE [c EXCEPT !.i = sum]

\* Fx1E
OpAddIndex(c, x) ==
    LET sum == c.i + RegGet(c.registers, x)
    IN  IF sum >= 4096
        THEN [c EXCEPT !.i = sum % 4096, !.registers = RegSet(@, 15, 1)]
        ELSE [c EXCEPT !.i = sum]

\* Fx29
OpFont(c, x) == [c EXCEPT !.i = 80 + BitAnd(RegGet(c.registers, x), 15) * 5]

\* memory.set(base + k - 1, vals[k]) for k from..Len(vals), in this order
RECURSIVE StoreFrom(_, _, _, _)
StoreFrom(c, base, vals, from) ==
    IF from > Len(vals) THEN c
    ELSE IF ~InBounds(base + from - 1) THEN Panic(c)
         ELSE StoreFrom([c EXCEPT !.memory = MemSet(@, base + from - 1, vals[from])],
                        base, vals, from + 1)

\* Fx33 without the reduction n %= 100 before the tens digit
OpBcdNoReduce(c, x) ==
    LET n == RegGet(c.registers, x)
    IN  StoreFrom(c, c.i, << n \div 100, n \div 10, n % 10 >>, 1)

\* Fx33
OpBcd(c, x) ==
    LET n == RegGet(c.registers, x)
    IN  StoreFrom(c, c.i, << n \div 100, (n % 100) \div 10, (n % 100) % 10 >>, 1)

\* the index update both Fx55 and Fx65 end with
UpdateIndex(c, x) ==
    IF c.panicked \/ ~config.update_i_after_store_or_load THEN c
    ELSE [c EXCEPT !.i = c.i + x + 1]

\* Fx55
OpStore(c, x) ==
    UpdateIndex(StoreFrom(c, c.i, [k \in 1..(x + 1) |-> RegGet(c.registers, k - 1)], 1), x)

\* registers.set(dest, memory.get(i + dest)) for dest from..x, in this order
RECURSIVE LoadFrom(_, _, _)
LoadFrom(c, x, dest) ==
    IF dest > x THEN c
    ELSE IF ~InBounds(c.i + dest) THEN Panic(c)
         ELSE LoadFrom([c EXCEPT !.registers = RegSet(@, dest, MemGet(c.memory, c.i + dest))],
                       x, dest + 1)

\* Fx65 with the loop over 0..x instead of 0..=x
OpLoadExclusive(c, x) == UpdateIndex(LoadFrom(c, x - 1, 0), x)

\* Fx65
OpLoad(c, x) == UpdateIndex(LoadFrom(c, x, 0), x)

\* the match of execute_instr: the first arm that fits
Dispatch(c, instr, rnd) ==
    LET nib == as_nibbles(instr)
        a == nib[1]
        x == nib[2]
        y == nib[3]
        n == nib[4]
    IN  CASE a = 0 /\ x = 0 /\ y = 14 /\ n = 0 -> OpClearScreen(c)
          [] a = 0 /\ x = 0 /\ y = 14 /\ n = 14 -> OpReturn(c)
          [] a = 0 /\ ~(x = 0 /\ y = 14 /\ n \in {0, 14}) -> OpMachineCode(c)
          [] a = 1 -> OpJump(c, instr)
          [] a = 2 -> OpCall(c, instr)
          [] a = 3 -> OpSkipEq(c, x, instr)
          [] a = 4 -> OpSkipNe(c, x, instr)
          [] a = 5 /\ n = 0 -> OpSkipRegEq(c, x, y)
          [] a = 6 -> OpSetImm(c, x, instr)
          [] a = 7 -> OpAddImm(c, x, instr)
          [] a = 8 /\ n = 0 -> OpCopy(c, x, y)
          [] a = 8 /\ n = 1 -> OpOr(c, x, y)
          [] a = 8 /\ n = 2 -> OpAnd(c, x, y)
          [] a = 8 /\ n = 3 -> OpXor(c, x, y)
          [] a = 8 /\ n = 4 -> OpAddCarry(c, x, y)
          [] a = 8 /\ n = 5 -> OpSubCarry(c, x, y)
          [] a = 8 /\ n = 6 -> OpShiftRight(c, x, y)
          [] a = 8 /\ n = 7 -> OpSubFrom(c, x, y)
          [] a = 8 /\ n = 14 -> OpShiftLeft(c, x, y)
          [] a = 9 /\ n = 0 -> OpSkipRegNe(c, x, y)
          [] a = 10 -> OpSetIndex(c, instr)
          [] a = 11 -> OpJumpOffset(c, x, instr)
          [] a = 12 -> OpRandom(c, x, instr, rnd)
          [] a = 13 -> OpDisplay(c, x, y, n)
          [] a = 15 /\ y = 0 /\ n = 7 -> OpGetDelay(c, x)
          [] a = 15 /\ y = 1 /\ n = 5 -> OpSetDelay(c, x)
          [] a = 15 /\ y = 1 /\ n = 8 -> OpSetSound(c, x)
          [] a = 15 /\ y = 1 /\ n = 14 -> OpAddIndex(c, x)
          [] a = 15 /\ y = 2 /\ n = 9 -> OpFont(c, x)
          [] a = 15 /\ y = 3 /\ n = 3 -> OpBcd(c, x)
          [] a = 15 /\ y = 5 /\ n = 5 -> OpStore(c, x)
          [] a = 15 /\ y = 6 /\ n = 5 -> OpLoad(c, x)
          [] OTHER -> Panic(c)

(***************************************************************************)
(* The execution thread: run_at and execute_instr (main.rs).               *)
(***************************************************************************)
\* the bytes rand::random::<u8>() may return
RandBytes == {0, 165, 255}

\* the mutexes an instruction locks: screen for 00E0 and Dxyn, timers for Fx07, Fx15, Fx18
Locks(nib) ==
    IF (nib = << 0, 0, 14, 0 >>) \/ nib[1] = 13 THEN {"screen"}
    ELSE IF nib[1] = 15 /\ << nib[3], nib[4] >> \in {<< 0, 7 >>, << 1, 5 >>, << 1, 8 >>}
         THEN {"timers"}
         ELSE {}

\* the execution thread going ahead without taking the mutex
ExecMayLockAlways(nib) == TRUE

\* Mutex::lock() of the execution thread returns once no other context holds the mutex
ExecMayLock(nib) == \A l \in Locks(nib) : lock[l] = "none"

\* the history of the instruction executed last: its decoded views (nibbles, immediate,
\* address), the engine's state before it, and the keypad it saw; and of the calls so
\* far: how many 2nnn and 00EE completed, the addresses of the 2nnn instructions
\* whose subroutine has not returned yet, innermost last, the address of the 2nnn
\* that the 00EE executed last returned from (0 if it was no 00EE), and whether some
\* 1nnn, 2nnn or Bnnn had an odd target
NoInstr ==
    [op |-> << >>, imm |-> 0, addr |-> 0, pre |-> << >>, keys |-> << >>,
     calls |-> 0, returns |-> 0, open |-> << >>, matched |-> 0, odd_target |-> FALSE]

\* the target of a 1nnn, 2nnn or Bnnn instruction
JumpTarget(nib, instr, c) ==
    IF nib[1] = 11
    THEN as_address(instr)
           + RegGet(c.registers, IF config.jump_with_offset_register THEN nib[2] ELSE 0)
    ELSE as_address(instr)

IsCall(nib) == nib[1] = 2

IsReturn(nib) == nib = << 0, 0, 14, 14 >>

\* the calls still open after the instruction nib fetched at address at
OpenNext(nib, at, r) ==
    IF IsCall(nib) THEN Append(last.open, at)
    ELSE IF IsReturn(nib) /\ ~r.panicked /\ last.open # << >>
         THEN SubSeq(last.open, 1, Len(last.open) - 1)
         ELSE last.open

\* what the history keeps of the engine's state before an instruction
Pre(c) ==
    [pc |-> c.pc, i |-> c.i, stack |-> c.stack, registers |-> c.registers,
     memory |-> c.memory, screen |-> c.screen]

\* the instructions that are about the keypad: Ex9E, ExA1 and Fx0A
ReadsKeys(nib) == nib[1] = 14 \/ (nib[1] = 15 /\ nib[3] = 0 /\ nib[4] = 10)

NoSnap == [valid |-> FALSE, x |-> 0, i |-> 0, registers |-> << >>]

IsStore(nib) == nib[1] = 15 /\ nib[3] = 5 /\ nib[4] = 5

IsLoad(nib) == nib[1] = 15 /\ nib[3] = 6 /\ nib[4] = 5

IsBcd(nib) == nib[1] = 15 /\ nib[3] = 3 /\ nib[4] = 3

\* the memory cells the instruction may write
Written(nib, c) ==
    IF IsBcd(nib) THEN c.i..(c.i + 2)
    ELSE IF IsStore(nib) THEN c.i..(c.i + nib[2])
         ELSE {}

\* the record of the last completed Fx55, dropped once one of its cells is written again
SnapNext(nib, c, r) ==
    IF IsStore(nib) /\ ~r.panicked
    THEN [valid |-> TRUE, x |-> nib[2], i |-> c.i, registers |-> c.registers]
    ELSE IF snap.valid /\ Written(nib, c) \cap (snap.i..(snap.i + snap.x)) # {}
         THEN NoSnap
         ELSE snap

\* run_at: the spawned thread sets the entry point
RunAt ==
    /\ process = "running"
    /\ execPc = "spawned"
    /\ pc' = 512
    /\ execPc' = "running"
    /\ UNCHANGED << config, overflow_checks, memory, i, stack, registers, screen, timers,
                    keys, options, lock, poisoned, timerPc, presPc, process, last, snap,
                    tickStart >>

\* one call of execute_instr
ExecuteInstr ==
    /\ process = "running"
    /\ execPc = "running"
    /\ IF ~InBounds(pc) \/ ~InBounds(pc + 1)
       THEN \* memory.get fails in the fetch
            /\ execPc' = "panicked"
            /\ last' = [NoInstr EXCEPT !.calls = last.calls, !.returns = last.returns,
                                       !.open = last.open,
                                       !.odd_target = last.odd_target]
            /\ UNCHANGED << pc, i, stack, registers, memory, screen, timers, poisoned, snap >>
       ELSE \E instr \in {[b1 |-> MemGet(memory, pc), b2 |-> MemGet(memory, pc + 1)]} :
            \E nib \in {as_nibbles(instr)} :
               /\ ExecMayLock(nib)
               /\ \E rnd \in (IF nib[1] = 12 THEN RandBytes ELSE {0}) :
                  \E c \in {Cur} :
                  \E r \in {Dispatch([c EXCEPT !.pc = pc + 2], instr, rnd)} :
                     /\ Len(r.stack) <= MaxStack
                     /\ pc' = r.pc
                     /\ i' = r.i
                     /\ stack' = r.stack
                     /\ registers' = r.registers
                     /\ memory' = r.memory
                     /\ screen' = r.screen
                     /\ timers' = r.timers
                     /\ poisoned' = r.poisoned
                     /\ execPc' = IF r.panicked THEN "panicked" ELSE "running"
                     /\ last' = [op |-> nib, imm |-> as_u8(instr),
                                 addr |-> as_address(instr), pre |-> Pre(c),
                                 keys |-> IF ReadsKeys(nib) THEN keys ELSE << >>,
                                 calls |-> last.calls + BoolToU8(IsCall(nib)),
                                 returns |-> last.returns
                                             + BoolToU8(IsReturn(nib) /\ ~r.panicked),
                                 open |-> OpenNext(nib, pc, r),
                                 matched |-> IF IsReturn(nib) /\ last.open # << >>
                                             THEN last.open[Len(last.open)] ELSE 0,
                                 odd_target |->
                                     \/ last.odd_target
                                     \/ /\ nib[1] \in {1, 2, 11}
                                        /\ JumpTarget(nib, instr, c) % 2 = 1]
                     /\ snap' = SnapNext(nib, c, r)
    /\ UNCHANGED << config, overflow_checks, keys, options, lock, timerPc, presPc, process,
                    tickStart >>

(***************************************************************************)
(* The timer thread: start_timer_thread (main.rs).                         *)
(***************************************************************************)
TimerHeld == {"test_delay", "dec_delay", "test_sound", "dec_sound", "unlock"}

TimerFrame ==
    UNCHANGED << config, overflow_checks, memory, pc, i, stack, registers, screen, keys,
                 options, poisoned, execPc, presPc, process, last, snap >>

\* timers.lock().unwrap()
TimerLock ==
    /\ process = "running"
    /\ timerPc = "lock"
    /\ lock["timers"] = "none"
    /\ lock' = [lock EXCEPT !["timers"] = "timer"]
    /\ tickStart' = timers
    /\ timerPc' = "test_delay"
    /\ UNCHANGED timers
    /\ TimerFrame

\* the decrement of delay_timer without its test
TimerTestDelayAlways ==
    /\ process = "running"
    /\ timerPc = "test_delay"
    /\ timerPc' = "dec_delay"
    /\ UNCHANGED << timers, lock, tickStart >>
    /\ TimerFrame

\* if t.delay_timer != 0
TimerTestDelay ==
    /\ process = "running"
    /\ timerPc = "test_delay"
    /\ timerPc' = IF timers.delay_timer # 0 THEN "dec_delay" ELSE "test_sound"
    /\ UNCHANGED << timers, lock, tickStart >>
    /\ TimerFrame

\* t.delay_timer -= 1
TimerDecDelay ==
    /\ process = "running"
    /\ timerPc = "dec_delay"
    /\ timers' = [timers EXCEPT !.delay_timer = (@ - 1) % 256]
    /\ timerPc' = "test_sound"
    /\ UNCHANGED << lock, tickStart >>
    /\ TimerFrame

\* if t.sound_timer != 0
TimerTestSound ==
    /\ process = "running"
    /\ timerPc = "test_sound"
    /\ timerPc' = IF timers.sound_timer # 0 THEN "dec_sound" ELSE "unlock"
    /\ UNCHANGED << timers, lock, tickStart >>
    /\ TimerFrame

\* t.sound_timer -= 1
TimerDecSound ==
    /\ process = "running"
    /\ timerPc = "dec_sound"
    /\ timers' = [timers EXCEPT !.sound_timer = (@ - 1) % 256]
    /\ timerPc' = "unlock"
    /\ UNCHANGED << lock, tickStart >>
    /\ TimerFrame

\* the timer thread going to sleep with the guard still alive
TimerUnlockKeepsGuard ==
    /\ process = "running"
    /\ timerPc = "unlock"
    /\ timerPc' = "sleep"
    /\ UNCHANGED << timers, tickStart, lock >>
    /\ TimerFrame

\* the end of the block drops the guard
TimerUnlock ==
    /\ process = "running"
    /\ timerPc = "unlock"
    /\ lock' = [lock EXCEPT !["timers"] = "none"]
    /\ timerPc' = "sleep"
    /\ UNCHANGED << timers, tickStart >>
    /\ TimerFrame

\* thread::sleep until the next 60 Hz deadline
TimerSleep ==
    /\ process = "running"
    /\ timerPc = "sleep"
    /\ timerPc' = "lock"
    /\ tickStart' = TimersNew
    /\ UNCHANGED << timers, lock >>
    /\ TimerFrame

TimerThread ==
    \/ TimerLock
    \/ TimerTestDelay
    \/ TimerDecDelay
    \/ TimerTestSound
    \/ TimerDecSound
    \/ TimerUnlock
    \/ TimerSleep

(***************************************************************************)
(* The presentation loop: draw, handle_user_input, draw_screen and         *)
(* draw_panel (window.rs).  It runs on the main thread.                    *)
(***************************************************************************)
\* the key codes get_keys_down() may report
DownCodes == {"X", "V"}

\* the key codes of get_keys_pressed() that handle_user_input looks at
CommandCodes == {"Tab", "Up", "Down"}

\* Shared (its definition is not among the sources: the fields window.rs uses)
SharedNew ==
    [instrs_per_second |-> 50, instr_count |-> 0, count_start |-> "start",
     fast_forward |-> FALSE]

\* the Down branch without its test of the rate
EditOptionsNoFloor(o, pressed) ==
    LET o1 == IF "Tab" \in pressed THEN [o EXCEPT !.fast_forward = ~@] ELSE o
        o2 == IF ~o1.fast_forward /\ "Up" \in pressed
              THEN [o1 EXCEPT !.instrs_per_second = @ + 50, !.instr_count = 0,
                              !.count_start = "now"]
              ELSE o1
        o3 == IF ~o2.fast_forward /\ "Down" \in pressed
              THEN [o2 EXCEPT !.instrs_per_second = @ - 50, !.instr_count = 0,
                              !.count_start = "now"]
              ELSE o2
    IN  o3

\* the edits of handle_user_input for the pressed keys
EditOptions(o, pressed) ==
    LET o1 == IF "Tab" \in pressed THEN [o EXCEPT !.fast_forward = ~@] ELSE o
        o2 == IF ~o1.fast_forward /\ "Up" \in pressed
              THEN [o1 EXCEPT !.instrs_per_second = @ + 50, !.instr_count = 0,
                              !.count_start = "now"]
              ELSE o1
        o3 == IF ~o2.fast_forward /\ "Down" \in pressed /\ o2.instrs_per_second >= 50
              THEN [o2 EXCEPT !.instrs_per_second = @ - 50, !.instr_count = 0,
                              !.count_start = "now"]
              ELSE o2
    IN  o3

PresFrame ==
    UNCHANGED << config, overflow_checks, memory, pc, i, stack, registers, screen, timers,
                 poisoned, execPc, timerPc, last, snap, tickStart >>

\* handle_user_input: keys.lock().unwrap()
PresLockKeys ==
    /\ process = "running"
    /\ presPc = "input"
    /\ lock["keys"] = "none"
    /\ lock' = [lock EXCEPT !["keys"] = "pres"]
    /\ presPc' = "set_keys"
    /\ UNCHANGED << keys, options, process >>
    /\ PresFrame

\* handle_user_input: the loop over the 16 keys; the block's end drops the guard
PresSetKeys ==
    /\ process = "running"
    /\ presPc = "set_keys"
    /\ \E down \in SUBSET DownCodes : keys' = KeysSet(down)
    /\ lock' = [lock EXCEPT !["keys"] = "none"]
    /\ presPc' = "lock_options"
    /\ UNCHANGED << options, process >>
    /\ PresFrame

\* handle_user_input: options.lock().unwrap()
PresLockOptions ==
    /\ process = "running"
    /\ presPc = "lock_options"
    /\ lock["options"] = "none"
    /\ lock' = [lock EXCEPT !["options"] = "pres"]
    /\ presPc' = "edit_options"
    /\ UNCHANGED << keys, options, process >>
    /\ PresFrame

\* handle_user_input returning with the options guard still alive
PresEditOptionsKeepsGuard ==
    /\ process = "running"
    /\ presPc = "edit_options"
    /\ \E pressed \in SUBSET CommandCodes :
          /\ ("Up" \in pressed => options.instrs_per_second < RateSteps * 50)
          /\ options' = EditOptions(options, pressed)
    /\ presPc' = "lock_screen"
    /\ UNCHANGED << keys, process, lock >>
    /\ PresFrame

\* handle_user_input: Tab, Up and Down; the function's end drops the guard.
\* Up is offered only below the model's highest rate.
PresEditOptions ==
    /\ process = "running"
    /\ presPc = "edit_options"
    /\ \E pressed \in SUBSET CommandCodes :
          /\ ("Up" \in pressed => options.instrs_per_second < RateSteps * 50)
          /\ options' = EditOptions(options, pressed)
    /\ lock' = [lock EXCEPT !["options"] = "none"]
    /\ presPc' = "lock_screen"
    /\ UNCHANGED << keys, process >>
    /\ PresFrame

\* draw_screen: screen.lock().unwrap() panics on a poisoned mutex, on the main thread
PresLockScreen ==
    /\ process = "running"
    /\ presPc = "lock_screen"
    /\ lock["screen"] = "none"
    /\ IF poisoned
       THEN /\ process' = "exited"
            /\ UNCHANGED << lock, presPc >>
       ELSE /\ lock' = [lock EXCEPT !["screen"] = "pres"]
            /\ presPc' = "draw_screen"
            /\ UNCHANGED process
    /\ UNCHANGED << keys, options >>
    /\ PresFrame

\* draw_screen: the loop over the rows; the guard is dropped after the loop
PresDrawScreen ==
    /\ process = "running"
    /\ presPc = "draw_screen"
    /\ lock' = [lock EXCEPT !["screen"] = "none"]
    /\ presPc' = "lock_panel"
    /\ UNCHANGED << keys, options, process >>
    /\ PresFrame

\* draw_panel: options.lock().unwrap()
PresLockPanel ==
    /\ process = "running"
    /\ presPc = "lock_panel"
    /\ lock["options"] = "none"
    /\ lock' = [lock EXCEPT !["options"] = "pres"]
    /\ presPc' = "read_panel"
    /\ UNCHANGED << keys, options, process >>
    /\ PresFrame

\* draw_panel: the three fields are copied; the block's end drops the guard
PresReadPanel ==
    /\ process = "running"
    /\ presPc = "read_panel"
    /\ lock' = [lock EXCEPT !["options"] = "none"]
    /\ presPc' = "next_frame"
    /\ UNCHANGED << keys, options, process >>
    /\ PresFrame

\* next_frame().await
PresNextFrame ==
    /\ process = "running"
    /\ presPc = "next_frame"
    /\ presPc' = "input"
    /\ UNCHANGED << keys, options, lock, process >>
    /\ PresFrame

PresentationLoop ==
    \/ PresLockKeys
    \/ PresSetKeys
    \/ PresLockOptions
    \/ PresEditOptions
    \/ PresLockScreen
    \/ PresDrawScreen
    \/ PresLockPanel
    \/ PresReadPanel
    \/ PresNextFrame

(***************************************************************************)
(* The programs the model loads at 0x200, and the initial states: main()   *)
(* has built the Chip8, loaded the program and started the three contexts. *)
(***************************************************************************)
\* the two bytes of the instruction with nibbles a, x, y, n
W(a, x, y, n) == << a * 16 + x, y * 16 + n >>

\* the two bytes of an instruction with nibbles a, x and the byte nn
WB(a, x, nn) == << a * 16 + x, nn >>

\* the two bytes of an instruction with nibble a and the address nnn
WA(a, nnn) == << a * 16 + (nnn \div 256), nnn % 256 >>

\* representative byte values, the first NumVals of which programs load into registers
ByteOrder == << 0, 1, 255, 2, 254, 128, 127, 100 >>

Vals == {ByteOrder[k] : k \in 1..NumVals}

\* representative sprite rows, the first NumSprites of which programs hold as data
SpriteOrder == << 255, 128, 1, 0, 170, 24 >>

Sprites == {SpriteOrder[k] : k \in 1..NumSprites}

\* start coordinates for the draw programs: in the grid, at its edges, and beyond
\* (a register value of 127 is column 63, row 31)
XCoords == {0, 56, 60, 63, 127}

YCoords == {0, 30, 31, 127}

InitWith(cfg, builds, prog) ==
    /\ config = cfg
    /\ overflow_checks \in builds
    /\ memory = load_bytes_at(MemoryNew, 512, prog)
    /\ pc = 0
    /\ i = 0
    /\ stack = << >>
    /\ registers = RegistersNew
    /\ screen = ScreenNew
    /\ timers = TimersNew
    /\ keys = KeysDefault
    /\ options = SharedNew
    /\ lock = [l \in {"screen", "timers", "keys", "options"} |-> "none"]
    /\ poisoned = FALSE
    /\ execPc = "spawned"
    /\ timerPc = "lock"
    /\ presPc = "input"
    /\ process = "running"
    /\ last = NoInstr
    /\ snap = NoSnap
    /\ tickStart = TimersNew

\* V0 := vx; V1 := vy; I := the data; two draws of n rows at (V0, V1); two rows of data
DrawPrograms ==
    { WB(6, 0, vx) \o WB(6, 1, vy) \o WA(10, 522) \o W(13, 0, 1, n) \o W(13, 0, 1, n)
        \o << s1, s2 >> :
      vx \in XCoords, vy \in YCoords, n \in 0..MaxRows, s1 \in Sprites, s2 \in Sprites }

InitDraw == \E prog \in DrawPrograms : InitWith(ConfigDefault, BOOLEAN, prog)

\* the engine alone: no other context runs
NextCpu == RunAt \/ ExecuteInstr

SpecDraw == InitDraw /\ [][NextCpu]_vars

\* the registers the arithmetic programs name: two general ones and the flag register
AluRegs == {0, 1, 15}

\* the sub-operations n of the 8xyn instructions
AluOps == {0, 1, 2, 3, 4, 5, 6, 7, 14}

\* Vx := a; Vy := b; 8xyn
AluPrograms ==
    { WB(6, x, a) \o WB(6, y, b) \o W(8, x, y, n) :
      x \in AluRegs, y \in AluRegs, a \in Vals, b \in Vals, n \in AluOps }

InitAlu ==
    \E prog \in AluPrograms, shift \in BOOLEAN :
        InitWith([ConfigDefault EXCEPT !.bitshift_copies_y = shift], BOOLEAN, prog)

SpecAlu == InitAlu /\ [][NextCpu]_vars

\* the instructions the store/load programs run between the store and the load:
\* V0 or V2 overwritten, V1 incremented, or a BCD write at the index
MidInstrs(a) == { WB(6, 0, (a + 1) % 256), WB(6, 2, 7), WB(7, 1, 1), W(15, 0, 3, 3) }

\* where the store/load programs point the index: in the middle of memory and at its top
StoreBases == {768, 4094}

\* V0 := a; V1 := b; I := base; Fx55; one more instruction; I := base2; Fx65
MemPrograms ==
    { WB(6, 0, a) \o WB(6, 1, b) \o WA(10, base) \o W(15, x, 5, 5) \o mid
        \o WA(10, base + off) \o W(15, x, 6, 5) :
      a \in Vals, b \in Vals, x \in 0..MaxStoreX, base \in StoreBases, off \in {0, 1},
      mid \in UNION { MidInstrs(v) : v \in Vals } }

InitMem ==
    \E prog \in MemPrograms, upd \in BOOLEAN :
        InitWith([ConfigDefault EXCEPT !.update_i_after_store_or_load = upd], BOOLEAN, prog)

SpecMem == InitMem /\ [][NextCpu]_vars

\* where the BCD programs point the index: free memory, the font, and the top of memory
BcdBases == {768, 80, 4093, 4094}

\* Vx := v; I := base; Fx33, for every byte v
BcdPrograms ==
    { WB(6, x, v) \o WA(10, base) \o W(15, x, 3, 3) :
      x \in {0, 1}, v \in Byte, base \in BcdBases }

InitBcd == \E prog \in BcdPrograms : InitWith(ConfigDefault, BOOLEAN, prog)

SpecBcd == InitBcd /\ [][NextCpu]_vars

\* the single instruction b1 b2 at 0x200, for every pair of bytes
DecodePrograms == { << b1, b2 >> : b1 \in Byte, b2 \in Byte }

InitDecode == \E prog \in DecodePrograms : InitWith(ConfigDefault, {TRUE}, prog)

SpecDecode == InitDecode /\ [][NextCpu]_vars

\* where the index programs point the index: the bottom, and just below the top
IndexBases == {0, 3841, 4094, 4095}

\* VF := f; Vx := v; I := base; Fx1E
IndexPrograms ==
    { WB(6, 15, f) \o WB(6, x, v) \o WA(10, base) \o W(15, x, 1, 14) :
      f \in {0, 1}, x \in {0, 15}, v \in Vals, base \in IndexBases }

InitIndex == \E prog \in IndexPrograms : InitWith(ConfigDefault, {TRUE}, prog)

SpecIndex == InitIndex /\ [][NextCpu]_vars

\* d nested subroutines: at 0x200 + 4k (k < d) a call of the next one and a return;
\* at 0x200 + 4d the innermost one, a lone return
RECURSIVE ChainProgram(_, _)
ChainProgram(d, k) ==
    IF k >= d THEN W(0, 0, 14, 14)
    ELSE WA(2, 512 + 4 * (k + 1)) \o W(0, 0, 14, 14) \o ChainProgram(d, k + 1)

\* targets of the jumps and calls of the control-flow programs
FlowTargets == {518, 519}

\* the control-flow programs: chains of nested calls; a subroutine called from two
\* places, once from inside another; a subroutine that calls itself; a register
\* compared by each skip instruction, followed by two jumps; a jump, a call and a jump
\* with offset to each target
FlowPrograms ==
    { ChainProgram(d, 0) : d \in 1..MaxStack }
    \cup { WA(2, 518) \o WA(2, 522) \o W(0, 0, 14, 14) \o WA(2, 522) \o W(0, 0, 14, 14)
             \o W(0, 0, 14, 14),
           WA(2, 512) }
    \cup { WB(6, 0, a) \o skip \o WA(1, 518) \o WA(1, 518) :
           a \in Vals,
           skip \in {WB(3, 0, b) : b \in Vals} \cup {WB(4, 0, b) : b \in Vals}
                      \cup {W(5, 0, 1, 0), W(9, 0, 1, 0)} }
    \cup { WB(6, 0, a) \o WA(op, t) : a \in {0, 1, 2}, op \in {1, 2, 11}, t \in FlowTargets }

InitFlow ==
    \E prog \in FlowPrograms, offs \in BOOLEAN :
        InitWith([ConfigDefault EXCEPT !.jump_with_offset_register = offs], {TRUE}, prog)

SpecFlow == InitFlow /\ [][NextCpu]_vars

\* the programs of the whole system: the key wait; a return on an empty stack, alone
\* and after a call and its return; a 0nnn instruction; an unassigned pattern; a
\* program that sets both timers and then polls the delay timer; a draw that runs
\* past the last row
SysPrograms ==
    { W(15, 0, 0, 10),
      W(0, 0, 14, 14),
      WA(2, 516) \o W(0, 0, 14, 14) \o W(0, 0, 14, 14),
      WA(0, 291),
      W(5, 0, 0, 1),
      WB(6, 1, 31) \o WA(10, 80) \o W(13, 0, 1, 2) }
    \cup { WB(6, 0, v) \o W(15, 0, 1, 5) \o W(15, 0, 1, 8) \o W(15, 1, 0, 7) \o WA(1, 518) :
           v \in 1..MaxTimer }

\* main(): Config::default().  No program of SysPrograms overflows a shift, so the
\* build makes no difference to them.
Init == \E prog \in SysPrograms : InitWith(ConfigDefault, {TRUE}, prog)

Next == RunAt \/ ExecuteInstr \/ TimerThread \/ PresentationLoop

Spec == Init /\ [][Next]_vars

(***************************************************************************)
(* Dxyn: collision flag, toggling and clipping (C1, C2, C3).               *)
(***************************************************************************)
LastIsDraw == last.op # << >> /\ last.op[1] = 13

\* the thread did not panic in the instruction executed last
Completed == execPc = "running"

DrawX == RegGet(last.pre.registers, last.op[2]) % 64

DrawY == RegGet(last.pre.registers, last.op[3]) % 32

DrawN == last.op[4]

\* the places of the set bits of the sprite drawn last, as <<column, row>>, clipped or not
SpritePixels ==
    { << DrawX + b, DrawY + row >> :
        << row, b >> \in { rb \in (0..(DrawN - 1)) \X (0..7) :
                            /\ InBounds(last.pre.i + rb[1])
                            /\ Bit(MemGet(last.pre.memory, last.pre.i + rb[1]), 7 - rb[2]) = 1 } }

Rows == 0..31

\* the columns of row Y under a set bit of the sprite drawn last
Covered(Y) == { p[1] : p \in { q \in SpritePixels : q[2] = Y /\ q[1] < 64 } }

\* C1: after Dxyn, VF is 1 if and only if a set sprite bit was drawn onto a pixel
\* that was on before the instruction, and 0 otherwise.
C1_CollisionFlag ==
    (LastIsDraw /\ Completed) =>
        registers[15] =
            (IF \E Y \in Rows : Covered(Y) \cap last.pre.screen[Y] # {} THEN 1 ELSE 0)

\* C2: drawing is an XOR: for a sprite that lies wholly in the grid, every pixel under
\* a set sprite bit is flipped and every other pixel is unchanged.
C2_ToggleIsXor ==
    (LastIsDraw /\ Completed /\ DrawX + 7 < 64 /\ DrawY + DrawN <= 32) =>
        \A Y \in Rows :
            screen[Y] = (last.pre.screen[Y] \ Covered(Y)) \cup (Covered(Y) \ last.pre.screen[Y])

\* C3: Dxyn clips: the instruction completes, no pixel outside the in-grid part of
\* the sprite changes, and the in-grid set bits are drawn (a pixel that was off
\* under such a bit is on afterwards).
C3_ClipsAtEdge ==
    (LastIsDraw /\ last.pre.i + DrawN <= MEMORY_SIZE) =>
        /\ Completed
        /\ \A Y \in Rows :
              /\ screen[Y] \ Covered(Y) = last.pre.screen[Y] \ Covered(Y)
              /\ Covered(Y) \ last.pre.screen[Y] \subseteq screen[Y]

(***************************************************************************)
(* 8xy4: add with carry (C10).                                             *)
(***************************************************************************)
LastIsAlu(n) == last.op # << >> /\ last.op[1] = 8 /\ last.op[4] = n

\* the operands Vx and Vy of the 8xyn instruction executed last
AluA == RegGet(last.pre.registers, last.op[2])

AluB == RegGet(last.pre.registers, last.op[3])

\* C10: 8xy4 leaves VF = 1 if Vx + Vy > 255 and 0 otherwise, and, for x other than
\* 0xF, Vx = (Vx + Vy) mod 256; for x = 0xF register 0xF holds the flag.
C10_AddCarry ==
    LastIsAlu(4) =>
        /\ Completed
        /\ registers[15] = (IF AluA + AluB > 255 THEN 1 ELSE 0)
        /\ last.op[2] # 15 => registers[last.op[2]] = (AluA + AluB) % 256

\* 0xFF + 0x02 was added into a general register: the result is 0x01 and the flag 1
C10_Witness ==
    /\ LastIsAlu(4)
    /\ last.op[2] = 0
    /\ AluA = 255
    /\ AluB = 2
    /\ registers[0] = 1
    /\ registers[15] = 1

(***************************************************************************)
(* Fx55 and Fx65: the store-then-load round trip (C8).                     *)
(***************************************************************************)
LastIsStore == last.op # << >> /\ IsStore(last.op)

LastIsLoad == last.op # << >> /\ IsLoad(last.op)

\* the load executed last matches the last completed store: same x, same index,
\* and none of the cells I..I+x written in between
LoadMatchesStore ==
    /\ LastIsLoad
    /\ Completed
    /\ snap.valid
    /\ snap.x = last.op[2]
    /\ snap.i = last.pre.i

\* C8: Fx55 followed later by Fx65 with the same x and the same index, the cells
\* I..I+x not written in between, leaves V0..Vx as they were before the Fx55;
\* neither instruction touches a register above x (Fx55 touches none).
C8_StoreLoadRoundTrip ==
    /\ LastIsStore => registers = last.pre.registers
    /\ LastIsLoad =>
          \A k \in (last.op[2] + 1)..15 : registers[k] = last.pre.registers[k]
    /\ LoadMatchesStore =>
          \A k \in 0..last.op[2] : registers[k] = snap.registers[k]

\* a load with x = 1 under the index-update quirk restored V0, which had been
\* overwritten after the store
C8_Witness ==
    /\ LoadMatchesStore
    /\ last.op[2] = 1
    /\ config.update_i_after_store_or_load
    /\ last.pre.registers[0] # snap.registers[0]
    /\ registers[0] = snap.registers[0]
    /\ registers[1] = snap.registers[1]

(***************************************************************************)
(* The timer thread's tick and the timers mutex (C4, C5).                  *)
(***************************************************************************)
\* one tick of a counter: down by one, staying at 0
SatDec(v) == IF v = 0 THEN 0 ELSE v - 1

\* C4: a tick of the timer thread decreases each of delay_timer and sound_timer by
\* exactly 1 if it was nonzero and leaves it 0 if it was 0; both stay in 0..255.
C4_TimerTick ==
    /\ timers.delay_timer \in 0..255
    /\ timers.sound_timer \in 0..255
    /\ timerPc = "unlock" =>
          timers = [delay_timer |-> SatDec(tickStart.delay_timer),
                    sound_timer |-> SatDec(tickStart.sound_timer)]

\* a tick that found delay_timer at 2 and sound_timer at 0 is complete
C4_Witness ==
    /\ timerPc = "unlock"
    /\ tickStart = [delay_timer |-> 2, sound_timer |-> 0]
    /\ timers = [delay_timer |-> 1, sound_timer |-> 0]

\* the execution thread is at an Fx07, Fx15 or Fx18 and waits for the timers mutex
ExecWaitsForTimers ==
    /\ execPc = "running"
    /\ InBounds(pc + 1)
    /\ Locks(as_nibbles([b1 |-> MemGet(memory, pc), b2 |-> MemGet(memory, pc + 1)]))
          = {"timers"}
    /\ lock["timers"] # "none"

\* C5: the accesses to the timer pair exclude each other: the timer thread holds the
\* mutex for its whole tick, and inside the tick the timers are what the tick itself
\* made of the values it found (no write of the execution thread falls in between,
\* and each decrement acts on the value its test saw).
C5_TimersExclusive ==
    /\ (lock["timers"] = "timer") <=> (timerPc \in TimerHeld)
    /\ timerPc \in {"test_delay", "dec_delay"} => timers = tickStart
    /\ timerPc \in {"test_sound", "dec_sound"} =>
          timers = [delay_timer |-> SatDec(tickStart.delay_timer),
                    sound_timer |-> tickStart.sound_timer]
    /\ timerPc = "dec_delay" => timers.delay_timer # 0
    /\ timerPc = "dec_sound" => timers.sound_timer # 0

\* the timer thread is about to decrement delay_timer while the execution thread
\* waits at its write of sound_timer
C5_Witness ==
    /\ timerPc = "dec_delay"
    /\ ExecWaitsForTimers
    /\ last.op = << 15, 0, 1, 5 >>

(***************************************************************************)
(* The keypad (C6, C7).                                                    *)
(***************************************************************************)
LastIsKeyWait == last.op # << >> /\ last.op[1] = 15 /\ last.op[3] = 0 /\ last.op[4] = 10

\* the keys that were down when the instruction executed last ran
DownThen == { k \in 0..15 : last.keys[k] }

\* C6: Fx0A with no key down leaves the program counter at the instruction and every
\* register as it was; with a key down it stores the lowest-indexed down key in Vx
\* and the program counter ends 2 past the instruction.
C6_KeyWait ==
    LastIsKeyWait =>
        /\ Completed
        /\ IF DownThen = {}
           THEN pc = last.pre.pc /\ registers = last.pre.registers
           ELSE /\ pc = last.pre.pc + 2
                /\ registers[last.op[2]] = CHOOSE k \in DownThen : \A j \in DownThen : k <= j

\* C7: Keys::get(x) is the down-flag of key x mod 16, for every byte x.
C7_KeysGet == \A x \in Byte : KeysGet(keys, x) = keys[x % 16]

(***************************************************************************)
(* The fatal conditions (C9).                                              *)
(***************************************************************************)
\* the execution thread panicked in an unassigned pattern, in 00EE on an empty stack
\* or in a 0nnn instruction: the panics that are not a memory or grid access
FatalOccurred ==
    /\ execPc = "panicked"
    /\ last.op # << >>
    /\ last.op[1] # 13
    /\ ~IsBcd(last.op)
    /\ ~IsStore(last.op)
    /\ ~IsLoad(last.op)

\* C9: after a fatal condition no context takes a step: no instruction is executed,
\* and neither the timer thread nor the presentation loop moves.
C9_FatalEndsProcess ==
    [][FatalOccurred => UNCHANGED << execPc, pc, timerPc, presPc >>]_vars

(***************************************************************************)
(* 8xy5 and 8xy7: subtraction and the no-borrow flag (C11).                *)
(***************************************************************************)
\* C11: 8xy5 leaves VF = 1 if Vx >= Vy and 0 otherwise, and Vx = (Vx - Vy) mod 256;
\* 8xy7 leaves VF = 1 if Vy >= Vx and 0 otherwise, and Vx = (Vy - Vx) mod 256
\* (the difference is in Vx for x other than 0xF, where the flag is written last).
C11_SubNoBorrow ==
    /\ LastIsAlu(5) =>
          /\ Completed
          /\ registers[15] = (IF AluA >= AluB THEN 1 ELSE 0)
          /\ last.op[2] # 15 => registers[last.op[2]] = (AluA - AluB + 256) % 256
    /\ LastIsAlu(7) =>
          /\ Completed
          /\ registers[15] = (IF AluB >= AluA THEN 1 ELSE 0)
          /\ last.op[2] # 15 => registers[last.op[2]] = (AluB - AluA + 256) % 256

\* 1 - 2 was computed by 8xy5 into V0: the result is 255 and the flag 0 (a borrow)
C11_Witness ==
    /\ LastIsAlu(5)
    /\ last.op[2] = 0
    /\ AluA = 1
    /\ AluB = 2
    /\ registers[0] = 255
    /\ registers[15] = 0

(***************************************************************************)
(* Fx33: binary-coded decimal (C12).                                       *)
(***************************************************************************)
LastIsBcd == last.op # << >> /\ IsBcd(last.op)

\* the value Fx33 decomposes: Vx before the instruction
BcdValue == RegGet(last.pre.registers, last.op[2])

\* the memory cells either written since construction now or before the instruction
TouchedCells == DOMAIN memory \cup DOMAIN last.pre.memory

\* C12: Fx33 with the cells I..I+2 inside the address space writes the hundreds, tens
\* and ones digit of Vx to memory[I], memory[I+1], memory[I+2], each in 0..9 and
\* together 100*m[I] + 10*m[I+1] + m[I+2] = Vx, and changes no register, no other
\* memory cell and not the index register.
C12_Bcd ==
    (LastIsBcd /\ InBounds(last.pre.i + 2)) =>
        /\ Completed
        /\ MemGet(memory, i) = BcdValue \div 100
        /\ MemGet(memory, i + 1) = (BcdValue \div 10) % 10
        /\ MemGet(memory, i + 2) = BcdValue % 10
        /\ \A k \in 0..2 : MemGet(memory, i + k) \in 0..9
        /\ 100 * MemGet(memory, i) + 10 * MemGet(memory, i + 1) + MemGet(memory, i + 2)
              = BcdValue
        /\ registers = last.pre.registers
        /\ i = last.pre.i
        /\ \A a \in TouchedCells \ (i..(i + 2)) :
              MemGet(memory, a) = MemGet(last.pre.memory, a)

\* the register value 156 was decomposed into 1, 5, 6 at the index
C12_Witness ==
    /\ LastIsBcd
    /\ Completed
    /\ BcdValue = 156
    /\ MemGet(memory, i) = 1
    /\ MemGet(memory, i + 1) = 5
    /\ MemGet(memory, i + 2) = 6

(***************************************************************************)
(* Instr: the decoded views of an instruction (C13).                       *)
(***************************************************************************)
\* the two bytes the instruction executed last was fetched from
FetchedB1 == MemGet(last.pre.memory, last.pre.pc)

FetchedB2 == MemGet(last.pre.memory, last.pre.pc + 1)

\* C13: every pair of bytes decodes to the nibbles (b1 >> 4, b1 & 0xF, b2 >> 4,
\* b2 & 0xF), the immediate b2 and the address ((b1 & 0xF) << 8) | b2 <= 0xFFF.
C13_Decode ==
    last.op # << >> =>
        /\ last.op = << FetchedB1 \div 16, FetchedB1 % 16,
                        FetchedB2 \div 16, FetchedB2 % 16 >>
        /\ last.imm = FetchedB2
        /\ last.addr = (FetchedB1 % 16) * 256 + FetchedB2
        /\ last.addr \in 0..4095

\* the bytes 0x12, 0x34 were decoded: nibbles (1, 2, 3, 4), immediate 0x34, address 0x234
C13_Witness ==
    /\ last.op = << 1, 2, 3, 4 >>
    /\ FetchedB1 = 18
    /\ FetchedB2 = 52
    /\ last.imm = 52
    /\ last.addr = 564

(***************************************************************************)
(* 8xy1, 8xy2, 8xy3: the bitwise operations and the flag register (C14).   *)
(***************************************************************************)
\* C14: after 8xy1, 8xy2 and 8xy3 with x other than 0xF, Vx is the bitwise OR, AND,
\* XOR of the old Vx and Vy, and VF is 0 whatever it held before.
C14_LogicResetsFlag ==
    \A n \in 1..3 :
        (LastIsAlu(n) /\ last.op[2] # 15) =>
            /\ Completed
            /\ registers[last.op[2]] =
                  (CASE n = 1 -> BitOr(AluA, AluB)
                     [] n = 2 -> BitAnd(AluA, AluB)
                     [] n = 3 -> BitXor(AluA, AluB))
            /\ registers[15] = 0

(***************************************************************************)
(* 8xy6 and 8xyE: the shifts and the bitshift-copies-y quirk (C15).        *)
(***************************************************************************)
\* the value the shift is meant to act on: old Vy under the quirk, old Vx otherwise
ShiftSource == IF config.bitshift_copies_y THEN AluB ELSE AluA

\* C15: 8xy6 leaves Vx = source >> 1 and VF = lowest bit of the source; 8xyE leaves
\* Vx = (source << 1) mod 256 and VF = highest bit of the source; the source is old
\* Vy with the quirk enabled and old Vx with it disabled, and Vy is unchanged
\* (stated for x other than 0xF, and for Vy when y is neither x nor 0xF).
C15_ShiftQuirk ==
    /\ LastIsAlu(6) =>
          /\ Completed
          /\ registers[15] = ShiftSource % 2
          /\ last.op[2] # 15 => registers[last.op[2]] = ShiftSource \div 2
    /\ LastIsAlu(14) =>
          /\ Completed
          /\ registers[15] = ShiftSource \div 128
          /\ last.op[2] # 15 => registers[last.op[2]] = (ShiftSource * 2) % 256
    /\ (LastIsAlu(6) \/ LastIsAlu(14)) /\ last.op[3] \notin {last.op[2], 15} =>
          registers[last.op[3]] = AluB

(***************************************************************************)
(* The index register (C16, C17).                                          *)
(***************************************************************************)
\* C16: the index register is a 12-bit address in every reachable state.
C16_IndexIn12Bits == i \in 0..4095

LastIsAddIndex ==
    last.op # << >> /\ last.op[1] = 15 /\ last.op[3] = 1 /\ last.op[4] = 14

\* I + Vx as Fx1E found them
IndexSum == last.pre.i + RegGet(last.pre.registers, last.op[2])

\* C17: Fx1E sets I to (I + Vx) mod 4096; when I + Vx >= 4096 it sets VF to 1 and
\* changes no other register; otherwise it changes no register at all, VF included.
C17_AddIndex ==
    LastIsAddIndex =>
        /\ Completed
        /\ i = IndexSum % 4096
        /\ IF IndexSum >= 4096
           THEN /\ registers[15] = 1
                /\ \A k \in 0..14 : registers[k] = last.pre.registers[k]
           ELSE registers = last.pre.registers

\* Fx1E did not overflow and VF, which was 1, is still 1
C17_Witness ==
    /\ LastIsAddIndex
    /\ IndexSum < 4096
    /\ IndexSum > last.pre.i
    /\ last.pre.registers[15] = 1
    /\ registers[15] = 1
    /\ i = IndexSum

(***************************************************************************)
(* The program counter and the call stack (C18, C19).                      *)
(***************************************************************************)
\* the instructions that may override the program counter: 00EE, 1nnn, 2nnn, Bnnn
IsJump(nib) == IsReturn(nib) \/ nib[1] \in {1, 2, 11}

\* the skip instructions 3xnn, 4xnn, 5xy0, 9xy0
IsSkip(nib) == nib[1] \in {3, 4} \/ (nib[1] \in {5, 9} /\ nib[4] = 0)

\* after an instruction that is no jump, call or return the program counter is 2 past
\* the fetched address (2 or 4 past it after a skip instruction)
AdvancesByTwo ==
    (last.op # << >> /\ Completed /\ ~IsJump(last.op)) =>
        IF IsSkip(last.op) THEN pc \in {last.pre.pc + 2, last.pre.pc + 4}
        ELSE pc = last.pre.pc + 2

\* C18 (as amended): the program counter is even before every fetch as long as no
\* executed 1nnn, 2nnn or Bnnn had an odd target, and after an instruction that is no
\* jump, call or return it is 2 past the fetched address (2 or 4 after a skip).
C18_PcEvenUnlessOddTarget ==
    /\ (execPc = "running" /\ ~last.odd_target) => pc % 2 = 0
    /\ AdvancesByTwo

\* a skip instruction skipped: the program counter is 4 past it, and even
C18_Witness ==
    /\ last.op # << >>
    /\ IsSkip(last.op)
    /\ Completed
    /\ ~last.odd_target
    /\ pc = last.pre.pc + 4
    /\ pc % 2 = 0

\* C18 (as stated): the program counter is even before every fetch, and after an
\* instruction that is no jump, call or return it is 2 past the fetched address (2 or
\* 4 past it after a skip instruction).
C18_PcEven ==
    /\ execPc = "running" => pc % 2 = 0
    /\ AdvancesByTwo

LastIsCall == last.op # << >> /\ IsCall(last.op)

LastIsReturn == last.op # << >> /\ IsReturn(last.op)

\* C19: 2nnn pushes the address of the instruction after the call and jumps to nnn;
\* 00EE pops the most recently pushed address into the program counter, which is the
\* address right after the matching call (the innermost call not yet returned from);
\* no other instruction touches the stack; the stack holds, innermost last, the
\* addresses after the calls not yet returned from, and its depth is calls minus
\* returns.
C19_CallReturnLifo ==
    /\ Len(stack) = last.calls - last.returns
    /\ Len(stack) = Len(last.open)
    /\ \A k \in 1..Len(stack) : stack[k] = last.open[k] + 2
    /\ LastIsCall =>
          /\ Completed
          /\ pc = last.addr
          /\ stack = Append(last.pre.stack, last.pre.pc + 2)
    /\ (LastIsReturn /\ Completed) =>
          /\ pc = last.pre.stack[Len(last.pre.stack)]
          /\ pc = last.matched + 2
          /\ stack = SubSeq(last.pre.stack, 1, Len(last.pre.stack) - 1)
    /\ (LastIsReturn /\ ~Completed) => last.pre.stack = << >>
    /\ (last.op # << >> /\ ~IsCall(last.op) /\ ~IsReturn(last.op)) =>
          stack = last.pre.stack

\* the second return out of three nested calls resumed right after the second call
C19_Witness ==
    /\ LastIsReturn
    /\ Completed
    /\ last.calls = 3
    /\ last.returns = 2
    /\ Len(stack) = 1
    /\ last.matched = 516
    /\ pc = 518

(***************************************************************************)
(* Locks and sleeps (C20).                                                 *)
(***************************************************************************)
\* the mutexes the context who holds
HeldBy(who) == { l \in DOMAIN lock : lock[l] = who }

\* C20: the timer thread holds no mutex while it sleeps until the next deadline, and
\* the presentation loop holds none of the screen, keys and options mutexes while it
\* waits for the next frame.
C20_NoLockAcrossSleep ==
    /\ timerPc = "sleep" => HeldBy("timer") = {}
    /\ presPc = "next_frame" => HeldBy("pres") = {}

\* the timer thread sleeps and the presentation loop waits for its next frame while
\* the execution thread is at an instruction that locks the timers, and can take them
C20_Witness ==
    /\ timerPc = "sleep"
    /\ presPc = "next_frame"
    /\ execPc = "running"
    /\ InBounds(pc + 1)
    /\ Locks(as_nibbles([b1 |-> MemGet(memory, pc), b2 |-> MemGet(memory, pc + 1)]))
          = {"timers"}
    /\ lock["timers"] = "none"
    /\ timers.delay_timer = 1

(***************************************************************************)
(* One mutex at a time, and no deadlock (C21).                             *)
(***************************************************************************)
\* the instruction the execution thread is about to fetch
NextNibbles == as_nibbles([b1 |-> MemGet(memory, pc), b2 |-> MemGet(memory, pc + 1)])

\* the execution thread is at an instruction whose mutex another context holds
ExecWaitsForLock ==
    /\ execPc = "running"
    /\ InBounds(pc + 1)
    /\ \E l \in Locks(NextNibbles) : lock[l] # "none"

\* C21: no context takes a mutex while it holds another: the timer thread holds at
\* most the timers mutex and none when it locks; the presentation loop holds at most
\* one mutex and none at each of its lock() calls; an instruction of the execution
\* thread locks at most one mutex.  And no context is stuck: while the process runs
\* the timer thread and the presentation loop can always take their next step, and
\* a mutex the execution thread waits for is held by one of those two.
C21_OneLockNoDeadlock ==
    /\ HeldBy("timer") \subseteq {"timers"}
    /\ timerPc = "lock" => HeldBy("timer") = {}
    /\ Cardinality(HeldBy("pres")) <= 1
    /\ presPc \in {"input", "lock_options", "lock_screen", "lock_panel"} =>
          HeldBy("pres") = {}
    /\ (execPc = "running" /\ InBounds(pc + 1)) => Cardinality(Locks(NextNibbles)) <= 1
    /\ process = "running" =>
          /\ ENABLED TimerThread
          /\ ENABLED PresentationLoop
          /\ ExecWaitsForLock =>
                \A l \in Locks(NextNibbles) : lock[l] \in {"none", "timer", "pres"}

\* each context is at a mutex: the execution thread waits for the timers, which the
\* timer thread holds, while the presentation loop holds the screen
C21_Witness ==
    /\ ExecWaitsForLock
    /\ HeldBy("timer") = {"timers"}
    /\ HeldBy("pres") = {"screen"}

(***************************************************************************)
(* The target rate under Tab, Up and Down (C22).  The presentation loop    *)
(* runs alone, from any non-negative rate, any counter and either          *)
(* fast-forward setting.                                                   *)
(***************************************************************************)
\* the rates the frames start from: multiples of 50 and values between them
StartRates == {0, 25, 49, 50, 75, 100}

\* the instruction counts the frames start from
StartCounts == {0, 3}

InitThrottle ==
    /\ config = ConfigDefault
    /\ overflow_checks = TRUE
    /\ memory = MemoryNew
    /\ pc = 0
    /\ i = 0
    /\ stack = << >>
    /\ registers = RegistersNew
    /\ screen = ScreenNew
    /\ timers = TimersNew
    /\ keys = KeysDefault
    /\ \E rate \in StartRates, count \in StartCounts, ff \in BOOLEAN :
          options = [instrs_per_second |-> rate, instr_count |-> count,
                     count_start |-> "start", fast_forward |-> ff]
    /\ lock = [l \in {"screen", "timers", "keys", "options"} |-> "none"]
    /\ poisoned = FALSE
    /\ execPc = "spawned"
    /\ timerPc = "lock"
    /\ presPc = "input"
    /\ process = "running"
    /\ last = NoInstr
    /\ snap = NoSnap
    /\ tickStart = TimersNew

SpecThrottle == InitThrottle /\ [][PresentationLoop]_vars

\* C22: from a non-negative rate the target rate never becomes negative; a step
\* changes the rate only if fast-forward is off after the step's Tab toggle, and
\* every step that changes the rate leaves the instruction counter at 0.
C22_RateNeverNegative ==
    /\ [](options.instrs_per_second >= 0)
    /\ [][options'.instrs_per_second # options.instrs_per_second =>
              /\ ~options'.fast_forward
              /\ options'.instr_count = 0]_vars

\* an edit of the rate has happened (count_start was renewed), it left the rate at 0
\* with the counter reset, and the next frame's edit is due with fast-forward off
C22_Witness ==
    /\ options.instrs_per_second = 0
    /\ options.count_start = "now"
    /\ options.instr_count = 0
    /\ ~options.fast_forward
    /\ presPc = "edit_options"

====
